---- MODULE Spec2Model ----
(***************************************************************************)
(* Model of src/sdk/github.js, the GitHub adapter of react-social-login.   *)
(*                                                                         *)
(* The adapter is a module with six module-level variables and four        *)
(* exported functions (load, checkLogin, login, generateUser).  It runs on *)
(* a JavaScript event loop: an exported function runs synchronously, a     *)
(* promise reaction (.then/.catch) runs later as a microtask, and the      *)
(* completion of a window.fetch() is a task that only starts once the      *)
(* microtask queue is empty.                                               *)
(*                                                                         *)
(* JavaScript values are tagged records: the field t is the type, strings  *)
(* are sequences of atomic pieces so that template literals are            *)
(* concatenations (\o).                                                    *)
(***************************************************************************)
EXTENDS Naturals, Sequences, FiniteSets

VARIABLES
    oauth,              \* let oauth = false
    gatekeeperURL,      \* let gatekeeperURL
    githubAccessToken,  \* let githubAccessToken
    githubAppId,        \* let githubAppId
    githubAuth,         \* let githubAuth
    githubRedirect,     \* let githubRedirect
    location,           \* window.location.search, as getQueryStringValue reads it
    calls,              \* the promises returned by load / checkLogin / login, in call order
    requests,           \* the window.fetch() calls made so far, in order
    opened,             \* the window.open(url, '_self') calls made so far, in order
    microtasks,         \* queue of pending promise reactions (ids of calls)
    generated           \* the last call of generateUser: its argument and its result

session == <<oauth, gatekeeperURL, githubAccessToken, githubAppId, githubAuth, githubRedirect>>
vars == <<oauth, gatekeeperURL, githubAccessToken, githubAppId, githubAuth, githubRedirect,
          location, calls, requests, opened, microtasks, generated>>

\* Number of calls of the exported functions in one page lifetime.
MaxCalls == 2

-----------------------------------------------------------------------------
(* JavaScript values *)

JSUndefined == [t |-> "undefined"]
JSNull == [t |-> "null"]
JSString(s) == [t |-> "string", s |-> s]
Lit(atom) == JSString(<<atom>>)
EmptyString == JSString(<< >>)
\* The TypeError a failed window.fetch() rejects with.
FetchError == [t |-> "TypeError", what |-> "Failed to fetch"]
\* The TypeError of a property read on null (json.error with json = null).
NullReadError == [t |-> "TypeError", what |-> "Cannot read property of null"]
\* The SyntaxError response.json() rejects with.
ParseError == [t |-> "SyntaxError", what |-> "Unexpected token"]

\* ToBoolean, for the values that occur here.
Truthy(v) ==
    /\ v.t \notin {"undefined", "null"}
    /\ (v.t = "string" => v.s # << >>)

\* a || b
Or(a, b) == IF Truthy(a) THEN a ELSE b

\* ${v} inside a template literal: ToString.  A number gives its decimal
\* form, an error 'name: message', an array its elements joined by commas
\* (the arrays here are empty or hold one object), a plain object
\* '[object Object]'.
ToStr(v) ==
    CASE v.t = "undefined" -> <<"undefined">>
      [] v.t = "null" -> <<"null">>
      [] v.t = "string" -> v.s
      [] v.t = "number" -> <<v.n>>
      [] v.t \in {"TypeError", "SyntaxError"} -> <<v.t, ": ", v.what>>
      [] v.t = "array" -> IF v.length = 0 THEN << >> ELSE <<"[object Object]">>
      [] OTHER -> <<"[object Object]">>

\* A parsed JSON object; a property that is not there reads as undefined.
JSObject(error, token, message, errors, data) ==
    [t |-> "object", error |-> error, token |-> token, message |-> message,
     errors |-> errors, data |-> data]

Viewer(id, name, email, avatarUrl) ==
    [t |-> "viewer", id |-> id, name |-> name, email |-> email, avatarUrl |-> avatarUrl]

-----------------------------------------------------------------------------
(* Imports *)

GITHUB_API == Lit("https://api.github.com/graphql")

\* rslError(errorObject) of '../utils': the structured error of the adapter.
rslError(provider, type, description, error) ==
    [t |-> "rslError", provider |-> provider, type |-> type,
     description |-> description, error |-> error]

\* getQueryStringValue(key) of '../utils': the decoded value of the query
\* parameter, the empty string when the parameter is not there.
getQueryStringValue(key) == location[key]

\* How the evaluation of an expression ends: with a value, or with a throw.
Return(v) == [completion |-> "normal", value |-> v]
Throw(e) == [completion |-> "throw", value |-> e]

\* The TypeError of uuid for a name that is neither a string nor an array.
BytesError == [t |-> "TypeError", what |-> "value must be an array of bytes"]

\* The character with code 0.
NUL == "\\0"

\* The bytes uuid hashes for an array given as name: the array itself, each
\* element converted to a byte; an object converts to the byte 0.
BytesOf(name) == [k \in 1..name.length |-> NUL]

\* uuid(name, uuid.URL) of 'uuid/v5': a name-based identifier, a function of
\* the namespace and of the bytes of the name.  A string is turned into its
\* bytes, an array is taken as the bytes, so uuid([]) is uuid(''); for
\* anything else, as undefined and null (a load() without redirect), it
\* throws.
uuid(name, namespace) ==
    CASE name.t = "string" -> Return(JSString(<<"uuid5", namespace>> \o name.s))
      [] name.t = "array" -> Return(JSString(<<"uuid5", namespace>> \o BytesOf(name)))
      [] OTHER -> Throw(BytesError)

-----------------------------------------------------------------------------
(* Promises *)

Pending == [status |-> "pending", value |-> JSUndefined]
Resolved(v) == [status |-> "resolved", value |-> v]
Rejected(e) == [status |-> "rejected", value |-> e]
\* A call of checkLogin(false) has no inner promise.
NoInner == [status |-> "none", value |-> JSUndefined]

NoConfig == [appId |-> JSUndefined, redirect |-> JSUndefined, gatekeeper |-> JSUndefined]

\* The promise an exported function returned: which function, its argument,
\* the state of the promise, and the state of the promise it waits for
\* (getAccessToken() in load, checkLogin() in login).
Call(kind, config, autoLogin, promise, inner) ==
    [kind |-> kind, config |-> config, autoLogin |-> autoLogin,
     status |-> promise.status, value |-> promise.value, inner |-> inner]

Settle(call, promise) == [call EXCEPT !.status = promise.status, !.value = promise.value]

\* What a fetch completes with: a transport failure, a body that
\* response.json() cannot parse, or a parsed JSON body.
Failed == [transport |-> "failed", json |-> JSUndefined]
Unparsable == [transport |-> "unparsable", json |-> JSUndefined]
Body(json) == [transport |-> "ok", json |-> json]

\* A window.fetch() of the call with identifier id, and what it completed with.
Fetch(id, url, method, authorization) ==
    [call |-> id, url |-> url, method |-> method, authorization |-> authorization,
     state |-> "inflight", response |-> Failed]

-----------------------------------------------------------------------------
(* Inputs *)

AppIds == {JSUndefined, EmptyString, Lit("app1")}
Gatekeepers == {JSUndefined, Lit("https://gatekeeper")}
Redirects == {Lit("https://host/a"), Lit("https://host/b")}
\* Every combination of the three, load({ appId }) alone, and
\* load({ appId, gatekeeper }) without redirect.  load is always given an
\* object.
Configs ==
    [appId : AppIds, redirect : Redirects, gatekeeper : Gatekeepers]
    \cup [appId : AppIds, redirect : {JSUndefined}, gatekeeper : Gatekeepers]

\* The query string of the page: no callback, the callback of this provider
\* (with and without a code), the callback of another provider.
Locations ==
    [rslCallback : {EmptyString, Lit("github"), Lit("facebook")},
     code : {EmptyString, Lit("ABC123")}]

Tokens == {Lit("t1"), Lit("t2")}
ViewerBody ==
    JSObject(JSUndefined, JSUndefined, JSUndefined, JSUndefined,
             [t |-> "data", viewer |-> Viewer(Lit("1"), Lit("Ada"), Lit("a@x.com"), Lit("u"))])

\* The responses generateUser is given: the resolved value of checkLogin(),
\* a body with data.viewer whose four fields differ from each other.
ViewerResponses == {ViewerBody}

\* The relay answers {token: t} or {error: e}; also a body with neither
\* field, and the body null.
RelayResponses ==
    {Failed, Unparsable}
    \cup {Body(JSObject(JSUndefined, tk, JSUndefined, JSUndefined, JSUndefined)) : tk \in Tokens}
    \cup {Body(JSObject(Lit("denied"), JSUndefined, JSUndefined, JSUndefined, JSUndefined)),
          Body(JSObject(JSUndefined, JSUndefined, JSUndefined, JSUndefined, JSUndefined)),
          Body(JSNull)}

\* The provider answers {data: {viewer}}, {errors: [...]} or {message: m}.
GraphqlResponses ==
    {Failed, Unparsable,
     Body(ViewerBody),
     Body(JSObject(JSUndefined, JSUndefined, JSUndefined, [t |-> "array", length |-> 1], JSNull)),
     Body(JSObject(JSUndefined, JSUndefined, Lit("Bad credentials"), JSUndefined, JSUndefined)),
     Body(JSNull)}

-----------------------------------------------------------------------------
(* getAccessToken *)

\* getAccessToken() with the relay address built without the authorization code.
getAccessToken_NoCode(id) ==
    LET authorizationCode == getQueryStringValue("code") IN
    IF ~Truthy(authorizationCode)
    THEN [promise |-> Rejected(Lit("Authorization code not found")), fetch |-> << >>]
    ELSE [promise |-> Pending,
          fetch |-> <<Fetch(id, JSString(ToStr(gatekeeperURL') \o <<"/authenticate/">>),
                            "GET", JSUndefined)>>]

\* getAccessToken(), the synchronous part: the promise it returns and the
\* fetch it starts, for the call with identifier id.
getAccessToken(id) ==
    LET authorizationCode == getQueryStringValue("code") IN
    IF ~Truthy(authorizationCode)
    THEN [promise |-> Rejected(Lit("Authorization code not found")), fetch |-> << >>]
    ELSE [promise |-> Pending,
          fetch |-> <<Fetch(id,
                            JSString(ToStr(gatekeeperURL') \o <<"/authenticate/">>
                                     \o ToStr(authorizationCode)),
                            "GET", JSUndefined)>>]

\* getAccessToken() testing json.error only.
getAccessTokenSettle_OnlyError(resp) ==
    IF resp.transport = "failed"
    THEN Rejected(rslError("github", "access_token",
                           "Failed to fetch user data due to window.fetch() error", FetchError))
    ELSE IF resp.transport = "unparsable"
    THEN Rejected(rslError("github", "access_token",
                           "Failed to fetch user data due to window.fetch() error", ParseError))
    ELSE IF resp.json.t = "null"
    THEN Rejected(rslError("github", "access_token",
                           "Failed to fetch user data due to window.fetch() error", NullReadError))
    ELSE IF Truthy(resp.json.error)
    THEN Rejected(rslError("github", "access_token",
                           "Got error from fetch access token", resp.json))
    ELSE Resolved(resp.json.token)

\* getAccessToken(), the handlers of the relay fetch: how the promise settles.
getAccessTokenSettle(resp) ==
    IF resp.transport = "failed"
    THEN Rejected(rslError("github", "access_token",
                           "Failed to fetch user data due to window.fetch() error", FetchError))
    ELSE IF resp.transport = "unparsable"
    THEN Rejected(rslError("github", "access_token",
                           "Failed to fetch user data due to window.fetch() error", ParseError))
    ELSE IF resp.json.t = "null"
    THEN Rejected(rslError("github", "access_token",
                           "Failed to fetch user data due to window.fetch() error", NullReadError))
    ELSE IF Truthy(resp.json.error) \/ ~Truthy(resp.json.token)
    THEN Rejected(rslError("github", "access_token",
                           "Got error from fetch access token", resp.json))
    ELSE Resolved(resp.json.token)

-----------------------------------------------------------------------------
(* load *)

\* load storing the appId before it checks it.
loadNoAppId_Stores(config) ==
    /\ githubAppId' = config.appId
    /\ calls' = Append(calls,
           Call("load", config, FALSE,
                Rejected(rslError("github", "load", "Cannot load SDK without appId", JSNull)),
                NoInner))
    /\ UNCHANGED <<oauth, gatekeeperURL, githubAccessToken, githubAuth, githubRedirect,
                   location, generated, requests, opened, microtasks>>

\* load, lines 26-33: no appId.
loadNoAppId(config) ==
    /\ calls' = Append(calls,
           Call("load", config, FALSE,
                Rejected(rslError("github", "load", "Cannot load SDK without appId", JSNull)),
                NoInner))
    /\ UNCHANGED <<session, location, generated, requests, opened, microtasks>>

\* load computing the state token from the appId instead of the redirect.
loadGatekeeper_StateFromAppId(config) ==
    LET id == Len(calls) + 1
        state == uuid(githubAppId', "URL") IN
    /\ gatekeeperURL' = config.gatekeeper
    /\ oauth' = TRUE
    /\ githubRedirect' = JSString(ToStr(config.redirect) \o <<"%3FrslCallback%3Dgithub">>)
    /\ IF state.completion = "throw"
       THEN \* the throw inside the executor rejects the promise of load
            /\ calls' = Append(calls,
                   Call("load", config, FALSE, Rejected(state.value), NoInner))
            /\ UNCHANGED <<githubAuth, requests, microtasks>>
       ELSE /\ githubAuth' =
                   JSString(<<"http://github.com/login/oauth/authorize?client_id=">>
                            \o ToStr(githubAppId') \o <<"&redirect_uri=">>
                            \o ToStr(githubRedirect') \o <<"&scope=user&state=">>
                            \o ToStr(state.value))
            /\ IF getQueryStringValue("rslCallback") = Lit("github")
               THEN LET g == getAccessToken(id) IN
                    /\ calls' = Append(calls, Call("load", config, FALSE, Pending, g.promise))
                    /\ requests' = requests \o g.fetch
                    /\ microtasks' = IF g.promise.status = "pending"
                                     THEN microtasks
                                     ELSE Append(microtasks, id)
               ELSE /\ calls' = Append(calls,
                           Call("load", config, FALSE, Resolved(JSUndefined), NoInner))
                    /\ UNCHANGED <<requests, microtasks>>
    /\ UNCHANGED <<githubAccessToken, location, generated, opened>>

\* load, lines 37-53: a gatekeeper is given.  Line 41 calls uuid(redirect):
\* when it throws, lines 38-40 have run, githubAuth keeps its value and no
\* callback is looked for.
loadGatekeeper(config) ==
    LET id == Len(calls) + 1
        state == uuid(config.redirect, "URL") IN
    /\ gatekeeperURL' = config.gatekeeper
    /\ oauth' = TRUE
    /\ githubRedirect' = JSString(ToStr(config.redirect) \o <<"%3FrslCallback%3Dgithub">>)
    /\ IF state.completion = "throw"
       THEN \* the throw inside the executor rejects the promise of load
            /\ calls' = Append(calls,
                   Call("load", config, FALSE, Rejected(state.value), NoInner))
            /\ UNCHANGED <<githubAuth, requests, microtasks>>
       ELSE /\ githubAuth' =
                   JSString(<<"http://github.com/login/oauth/authorize?client_id=">>
                            \o ToStr(githubAppId') \o <<"&redirect_uri=">>
                            \o ToStr(githubRedirect') \o <<"&scope=user&state=">>
                            \o ToStr(state.value))
            /\ IF getQueryStringValue("rslCallback") = Lit("github")
               THEN LET g == getAccessToken(id) IN
                    /\ calls' = Append(calls, Call("load", config, FALSE, Pending, g.promise))
                    /\ requests' = requests \o g.fetch
                    /\ microtasks' = IF g.promise.status = "pending"
                                     THEN microtasks
                                     ELSE Append(microtasks, id)
               ELSE /\ calls' = Append(calls,
                           Call("load", config, FALSE, Resolved(JSUndefined), NoInner))
                    /\ UNCHANGED <<requests, microtasks>>
    /\ UNCHANGED <<githubAccessToken, location, generated, opened>>

\* load looking for the callback although no gatekeeper is given.
loadNoGatekeeper_Detects(config) ==
    LET id == Len(calls) + 1 IN
    /\ IF getQueryStringValue("rslCallback") = Lit("github")
       THEN /\ calls' = Append(calls, Call("load", config, FALSE, Pending, Pending))
            /\ requests' = Append(requests,
                   Fetch(id, JSString(ToStr(gatekeeperURL) \o <<"/authenticate/">>
                                      \o ToStr(getQueryStringValue("code"))),
                         "GET", JSUndefined))
       ELSE /\ calls' = Append(calls,
                   Call("load", config, FALSE, Resolved(JSUndefined), NoInner))
            /\ UNCHANGED requests
    /\ UNCHANGED <<oauth, gatekeeperURL, githubAccessToken, githubAuth, githubRedirect,
                   location, generated, opened, microtasks>>

\* load, lines 54-56: no gatekeeper.
loadNoGatekeeper(config) ==
    /\ calls' = Append(calls, Call("load", config, FALSE, Resolved(JSUndefined), NoInner))
    /\ UNCHANGED <<oauth, gatekeeperURL, githubAccessToken, githubAuth, githubRedirect,
                   location, generated, requests, opened, microtasks>>

\* load({ appId, redirect, gatekeeper }), the executor of its promise.
load(config) ==
    /\ Len(calls) < MaxCalls
    /\ IF ~Truthy(config.appId)
       THEN loadNoAppId(config)
       ELSE /\ githubAppId' = config.appId
            /\ IF Truthy(config.gatekeeper)
               THEN loadGatekeeper(config)
               ELSE loadNoGatekeeper(config)

\* The relay handler recording the token itself, before load's reaction runs.
relayResponse_RecordsToken(r, resp) ==
    /\ microtasks = << >>
    /\ requests[r].state = "inflight"
    /\ requests[r].method = "GET"
    /\ LET id == requests[r].call IN
       /\ calls' = [calls EXCEPT ![id].inner = getAccessTokenSettle(resp)]
       /\ microtasks' = Append(microtasks, id)
    /\ requests' = [requests EXCEPT ![r].state = "done", ![r].response = resp]
    /\ githubAccessToken' = IF getAccessTokenSettle(resp).status = "resolved"
                            THEN getAccessTokenSettle(resp).value
                            ELSE githubAccessToken
    /\ UNCHANGED <<oauth, gatekeeperURL, githubAppId, githubAuth, githubRedirect,
                   location, generated, opened>>

\* The response of the relay to the fetch of getAccessToken() arrives:
\* getAccessToken()'s promise settles, load's reaction to it is queued.
relayResponse(r, resp) ==
    /\ microtasks = << >>
    /\ requests[r].state = "inflight"
    /\ requests[r].method = "GET"
    /\ LET id == requests[r].call IN
       /\ calls' = [calls EXCEPT ![id].inner = getAccessTokenSettle(resp)]
       /\ microtasks' = Append(microtasks, id)
    /\ requests' = [requests EXCEPT ![r].state = "done", ![r].response = resp]
    /\ UNCHANGED <<session, location, generated, opened>>

\* load without its .catch(reject): a rejected getAccessToken() is dropped.
loadThen_NoCatch ==
    /\ microtasks # << >>
    /\ LET id == Head(microtasks) IN
       /\ calls[id].kind = "load"
       /\ IF calls[id].inner.status = "resolved"
          THEN /\ githubAccessToken' = calls[id].inner.value
               /\ calls' = [calls EXCEPT ![id] = Settle(@, Resolved(githubAccessToken'))]
          ELSE UNCHANGED <<calls, githubAccessToken>>
    /\ microtasks' = Tail(microtasks)
    /\ UNCHANGED <<oauth, gatekeeperURL, githubAppId, githubAuth, githubRedirect,
                   location, generated, requests, opened>>

\* load resolving with the token without recording it.
loadThen_NoRecord ==
    /\ microtasks # << >>
    /\ LET id == Head(microtasks) IN
       /\ calls[id].kind = "load"
       /\ IF calls[id].inner.status = "resolved"
          THEN calls' = [calls EXCEPT ![id] = Settle(@, Resolved(calls[id].inner.value))]
          ELSE calls' = [calls EXCEPT ![id] = Settle(@, Rejected(calls[id].inner.value))]
    /\ microtasks' = Tail(microtasks)
    /\ UNCHANGED <<session, location, generated, requests, opened>>

\* load's reaction to the promise of getAccessToken():
\* .then((accessToken) => { githubAccessToken = accessToken; return resolve(githubAccessToken) })
\* .catch(reject)
loadThen ==
    /\ microtasks # << >>
    /\ LET id == Head(microtasks) IN
       /\ calls[id].kind = "load"
       /\ IF calls[id].inner.status = "resolved"
          THEN /\ githubAccessToken' = calls[id].inner.value
               /\ calls' = [calls EXCEPT ![id] = Settle(@, Resolved(githubAccessToken'))]
          ELSE /\ calls' = [calls EXCEPT ![id] = Settle(@, Rejected(calls[id].inner.value))]
               /\ UNCHANGED githubAccessToken
    /\ microtasks' = Tail(microtasks)
    /\ UNCHANGED <<oauth, gatekeeperURL, githubAppId, githubAuth, githubRedirect,
                   location, generated, requests, opened>>

-----------------------------------------------------------------------------
(* checkLogin and login *)

\* checkLogin(false) without the test of line 68.
checkLoginProbe_NoGuard(id) ==
    [promise |-> Pending,
     fetch |-> <<Fetch(id, GITHUB_API, "POST",
                       JSString(<<"Bearer ">> \o ToStr(Or(githubAccessToken, githubAppId))))>>]

\* checkLogin(false) preferring the appId to the access token.
checkLoginProbe_AppIdFirst(id) ==
    IF ~Truthy(githubAccessToken) /\ oauth
    THEN [promise |-> Rejected(rslError("github", "access_token",
                                        "No access token available", JSNull)),
          fetch |-> << >>]
    ELSE [promise |-> Pending,
          fetch |-> <<Fetch(id, GITHUB_API, "POST",
                            JSString(<<"Bearer ">>
                                     \o ToStr(Or(githubAppId, githubAccessToken))))>>]

\* checkLogin(false), the synchronous part: the promise it returns and the
\* fetch it starts, for the call with identifier id.
checkLoginProbe(id) ==
    IF ~Truthy(githubAccessToken) /\ oauth
    THEN [promise |-> Rejected(rslError("github", "access_token",
                                        "No access token available", JSNull)),
          fetch |-> << >>]
    ELSE [promise |-> Pending,
          fetch |-> <<Fetch(id, GITHUB_API, "POST",
                            JSString(<<"Bearer ">>
                                     \o ToStr(Or(githubAccessToken, githubAppId))))>>]

\* checkLogin(false) testing json.errors only.
checkLoginSettle_ErrorsOnly(resp) ==
    IF resp.transport = "failed" \/ resp.transport = "unparsable" \/ resp.json.t = "null"
    THEN Rejected(rslError("github", "check_login",
                           "Failed to fetch user data due to window.fetch() error", JSNull))
    ELSE IF Truthy(resp.json.errors)
    THEN Rejected(rslError("github", "check_login", "Failed to fetch user data", resp.json))
    ELSE Resolved(resp.json)

\* checkLogin(false) passing the error of the fetch on, as getAccessToken does.
checkLoginSettle_KeepsCause(resp) ==
    IF resp.transport = "failed"
    THEN Rejected(rslError("github", "check_login",
                           "Failed to fetch user data due to window.fetch() error", FetchError))
    ELSE IF resp.transport = "unparsable"
    THEN Rejected(rslError("github", "check_login",
                           "Failed to fetch user data due to window.fetch() error", ParseError))
    ELSE IF resp.json.t = "null"
    THEN Rejected(rslError("github", "check_login",
                           "Failed to fetch user data due to window.fetch() error",
                           NullReadError))
    ELSE IF Truthy(resp.json.message) \/ Truthy(resp.json.errors)
    THEN Rejected(rslError("github", "check_login", "Failed to fetch user data", resp.json))
    ELSE Resolved(resp.json)

\* checkLogin(false), the handlers of the GraphQL fetch: how the promise settles.
checkLoginSettle(resp) ==
    IF resp.transport = "failed" \/ resp.transport = "unparsable" \/ resp.json.t = "null"
    THEN Rejected(rslError("github", "check_login",
                           "Failed to fetch user data due to window.fetch() error", JSNull))
    ELSE IF Truthy(resp.json.message) \/ Truthy(resp.json.errors)
    THEN Rejected(rslError("github", "check_login", "Failed to fetch user data", resp.json))
    ELSE Resolved(resp.json)

\* login(), the executor of its promise: it calls checkLogin() and attaches
\* its reactions.  kind and autoLogin say how the caller entered it.
loginExecutor(kind, autoLogin) ==
    /\ Len(calls) < MaxCalls
    /\ LET id == Len(calls) + 1
           p == checkLoginProbe(id) IN
       /\ calls' = Append(calls, Call(kind, NoConfig, autoLogin, Pending, p.promise))
       /\ requests' = requests \o p.fetch
       /\ microtasks' = IF p.promise.status = "pending"
                        THEN microtasks
                        ELSE Append(microtasks, id)
    /\ UNCHANGED <<session, location, generated, opened>>

\* login()
login == loginExecutor("login", FALSE)

\* checkLogin running the probe itself whatever autoLogin is.
checkLogin_IgnoresAutoLogin(autoLogin) ==
    /\ Len(calls) < MaxCalls
    /\ LET id == Len(calls) + 1
           p == checkLoginProbe(id) IN
       /\ calls' = Append(calls, Call("checkLogin", NoConfig, autoLogin, p.promise, NoInner))
       /\ requests' = requests \o p.fetch
    /\ UNCHANGED <<session, location, generated, opened, microtasks>>

\* checkLogin(autoLogin = false)
checkLogin(autoLogin) ==
    IF autoLogin
    THEN loginExecutor("checkLogin", TRUE)
    ELSE /\ Len(calls) < MaxCalls
         /\ LET id == Len(calls) + 1
                p == checkLoginProbe(id) IN
            /\ calls' = Append(calls, Call("checkLogin", NoConfig, FALSE, p.promise, NoInner))
            /\ requests' = requests \o p.fetch
         /\ UNCHANGED <<session, location, generated, opened, microtasks>>

\* The response handler forgetting the access token that the provider refused.
graphqlResponse_ForgetsToken(r, resp) ==
    /\ microtasks = << >>
    /\ requests[r].state = "inflight"
    /\ requests[r].method = "POST"
    /\ LET id == requests[r].call IN
       IF calls[id].inner.status = "none"
       THEN /\ calls' = [calls EXCEPT ![id] = Settle(@, checkLoginSettle(resp))]
            /\ UNCHANGED microtasks
       ELSE /\ calls' = [calls EXCEPT ![id].inner = checkLoginSettle(resp)]
            /\ microtasks' = Append(microtasks, id)
    /\ requests' = [requests EXCEPT ![r].state = "done", ![r].response = resp]
    /\ githubAccessToken' = IF checkLoginSettle(resp).status = "rejected"
                            THEN JSUndefined
                            ELSE githubAccessToken
    /\ UNCHANGED <<oauth, gatekeeperURL, githubAppId, githubAuth, githubRedirect,
                   location, generated, opened>>

\* The response of the provider to the fetch of checkLogin() arrives: the
\* promise of checkLogin() settles; when login() made the call, login's
\* reaction to it is queued.
graphqlResponse(r, resp) ==
    /\ microtasks = << >>
    /\ requests[r].state = "inflight"
    /\ requests[r].method = "POST"
    /\ LET id == requests[r].call IN
       IF calls[id].inner.status = "none"
       THEN /\ calls' = [calls EXCEPT ![id] = Settle(@, checkLoginSettle(resp))]
            /\ UNCHANGED microtasks
       ELSE /\ calls' = [calls EXCEPT ![id].inner = checkLoginSettle(resp)]
            /\ microtasks' = Append(microtasks, id)
    /\ requests' = [requests EXCEPT ![r].state = "done", ![r].response = resp]
    /\ UNCHANGED <<session, location, generated, opened>>

\* login opening the authorization page whatever the mode is.
loginThen_AlwaysOpens ==
    /\ microtasks # << >>
    /\ LET id == Head(microtasks) IN
       /\ calls[id].kind # "load"
       /\ IF calls[id].inner.status = "resolved"
          THEN /\ calls' = [calls EXCEPT ![id] = Settle(@, Resolved(calls[id].inner.value))]
               /\ UNCHANGED opened
          ELSE /\ opened' = Append(opened, [call |-> id, url |-> githubAuth, target |-> "_self"])
               /\ UNCHANGED calls
    /\ microtasks' = Tail(microtasks)
    /\ UNCHANGED <<session, location, generated, requests>>

\* login rejecting after it opened the authorization page.
loginThen_RejectsAfterOpen ==
    /\ microtasks # << >>
    /\ LET id == Head(microtasks) IN
       /\ calls[id].kind # "load"
       /\ IF calls[id].inner.status = "resolved"
          THEN /\ calls' = [calls EXCEPT ![id] = Settle(@, Resolved(calls[id].inner.value))]
               /\ UNCHANGED opened
          ELSE /\ calls' = [calls EXCEPT ![id] = Settle(@, Rejected(calls[id].inner.value))]
               /\ IF ~oauth
                  THEN UNCHANGED opened
                  ELSE opened' = Append(opened,
                           [call |-> id, url |-> githubAuth, target |-> "_self"])
    /\ microtasks' = Tail(microtasks)
    /\ UNCHANGED <<session, location, generated, requests>>

\* login resolving without the response: .then(() => resolve())
loginThen_ResolvesVoid ==
    /\ microtasks # << >>
    /\ LET id == Head(microtasks) IN
       /\ calls[id].kind # "load"
       /\ IF calls[id].inner.status = "resolved"
          THEN /\ calls' = [calls EXCEPT ![id] = Settle(@, Resolved(JSUndefined))]
               /\ UNCHANGED opened
          ELSE IF ~oauth
          THEN /\ calls' = [calls EXCEPT ![id] = Settle(@, Rejected(calls[id].inner.value))]
               /\ UNCHANGED opened
          ELSE /\ opened' = Append(opened, [call |-> id, url |-> githubAuth, target |-> "_self"])
               /\ UNCHANGED calls
    /\ microtasks' = Tail(microtasks)
    /\ UNCHANGED <<session, location, generated, requests>>

\* login's reaction to the promise of checkLogin():
\* .then((response) => resolve(response))
\* .catch((error) => { if (!oauth) { return reject(error) }; window.open(githubAuth, '_self') })
loginThen ==
    /\ microtasks # << >>
    /\ LET id == Head(microtasks) IN
       /\ calls[id].kind # "load"
       /\ IF calls[id].inner.status = "resolved"
          THEN /\ calls' = [calls EXCEPT ![id] = Settle(@, Resolved(calls[id].inner.value))]
               /\ UNCHANGED opened
          ELSE IF ~oauth
          THEN /\ calls' = [calls EXCEPT ![id] = Settle(@, Rejected(calls[id].inner.value))]
               /\ UNCHANGED opened
          ELSE /\ opened' = Append(opened, [call |-> id, url |-> githubAuth, target |-> "_self"])
               /\ UNCHANGED calls
    /\ microtasks' = Tail(microtasks)
    /\ UNCHANGED <<session, location, generated, requests>>

-----------------------------------------------------------------------------
(* generateUser *)

Infinity == [t |-> "number", n |-> "Infinity"]

\* generateUser keeping the access token only, without the appId fallback.
generateUser_TokenOnly(response) ==
    LET viewer == response.data.viewer IN
    [t |-> "user",
     profile |-> [t |-> "profile",
                  id |-> viewer.id,
                  name |-> viewer.name,
                  firstName |-> viewer.name,
                  lastName |-> viewer.name,
                  email |-> viewer.email,
                  profilePicURL |-> viewer.avatarUrl],
     token |-> [t |-> "token",
                accessToken |-> githubAccessToken,
                expiresAt |-> Infinity]]

\* generateUser({ data: { viewer } }): the object it returns.
generateUser(response) ==
    LET viewer == response.data.viewer IN
    [t |-> "user",
     profile |-> [t |-> "profile",
                  id |-> viewer.id,
                  name |-> viewer.name,
                  firstName |-> viewer.name,
                  lastName |-> viewer.name,
                  email |-> viewer.email,
                  profilePicURL |-> viewer.avatarUrl],
     token |-> [t |-> "token",
                accessToken |-> Or(githubAccessToken, githubAppId),
                expiresAt |-> Infinity]]

NotGenerated == [argument |-> JSUndefined, result |-> JSUndefined]

\* A call of generateUser(response).
callGenerateUser(response) ==
    /\ generated' = [argument |-> response, result |-> generateUser(response)]
    /\ UNCHANGED <<session, location, calls, requests, opened, microtasks>>

-----------------------------------------------------------------------------
(* The adapter in its page *)

Init ==
    /\ oauth = FALSE
    /\ gatekeeperURL = JSUndefined
    /\ githubAccessToken = JSUndefined
    /\ githubAppId = JSUndefined
    /\ githubAuth = JSUndefined
    /\ githubRedirect = JSUndefined
    /\ location \in Locations
    /\ calls = << >>
    /\ requests = << >>
    /\ opened = << >>
    /\ microtasks = << >>
    /\ generated = NotGenerated

Next ==
    \/ \E config \in Configs : load(config)
    \/ \E autoLogin \in BOOLEAN : checkLogin(autoLogin)
    \/ login
    \/ \E r \in DOMAIN requests : \E resp \in RelayResponses : relayResponse(r, resp)
    \/ \E r \in DOMAIN requests : \E resp \in GraphqlResponses : graphqlResponse(r, resp)
    \/ loadThen
    \/ loginThen

\* The adapter as its promises see it: load, checkLogin, login and their handlers.
Spec == Init /\ [][Next]_vars

\* The adapter on an event loop that runs every queued reaction, with a
\* network that completes every fetch.
SpecFair ==
    /\ Spec
    /\ WF_vars(loadThen)
    /\ WF_vars(loginThen)
    /\ \A r \in 1..MaxCalls :
          /\ WF_vars(r \in DOMAIN requests
                        /\ \E resp \in RelayResponses : relayResponse(r, resp))
          /\ WF_vars(r \in DOMAIN requests
                        /\ \E resp \in GraphqlResponses : graphqlResponse(r, resp))

\* The loads alone, over configurations that differ in each of the three
\* fields: two appIds, two gatekeepers, two redirects, no redirect (absent
\* or null), and an empty array as redirect.
WideConfigs ==
    [appId : {Lit("app1"), Lit("app2")},
     redirect : Redirects \cup {JSUndefined, JSNull, [t |-> "array", length |-> 0]},
     gatekeeper : {Lit("https://gatekeeper"), Lit("https://relay")}]

NextLoad ==
    \/ \E config \in WideConfigs : load(config)
    \/ \E r \in DOMAIN requests : \E resp \in RelayResponses : relayResponse(r, resp)
    \/ loadThen

SpecLoad == Init /\ [][NextLoad]_vars

\* The same with the calls of generateUser, which can come in any state.
NextGenerate ==
    \/ Next
    \/ \E response \in ViewerResponses : callGenerateUser(response)

SpecGenerate == Init /\ [][NextGenerate]_vars

-----------------------------------------------------------------------------
(* Properties *)

IsRslError(v, type) == v.t = "rslError" /\ v.provider = "github" /\ v.type = type

\* The step is a call of load, checkLogin or login: it returns a new promise.
IsCallStep == Len(calls') = Len(calls) + 1
NewCall == calls'[Len(calls')]

\* The fetches made on behalf of call i.
RequestsOf(i) == {r \in DOMAIN requests : requests[r].call = i}
\* The navigations made on behalf of call i.
OpenedBy(i) == {n \in DOMAIN opened : opened[n].call = i}

IsCallback == getQueryStringValue("rslCallback") = Lit("github")

\* The configuration has appId, gatekeeper and a redirect URI: what
\* RedirectOAuth mode requires.
HasRedirect(config) ==
    Truthy(config.appId) /\ Truthy(config.gatekeeper) /\ config.redirect.t = "string"

\* C1: a load() whose config has no appId (absent or empty) rejects with an
\* error of type 'load', leaves appId, mode, relay URL, authorization URL and
\* access token as they were, and makes no network request.
C1_LoadWithoutAppId ==
    [][(IsCallStep /\ NewCall.kind = "load" /\ ~Truthy(NewCall.config.appId))
         => /\ NewCall.status = "rejected"
            /\ IsRslError(NewCall.value, "load")
            /\ session' = session
            /\ requests' = requests
            /\ microtasks' = microtasks]_vars

\* C1 happens after a load that set the whole session state, token included.
C1_Witness ==
    \E i \in DOMAIN calls :
        /\ calls[i].kind = "load" /\ ~Truthy(calls[i].config.appId)
        /\ calls[i].status = "rejected"
        /\ i > 1 /\ oauth /\ Truthy(githubAccessToken) /\ Truthy(githubAuth)

\* C2: a load() with an appId and no gatekeeper resolves with no value and
\* makes no network request, whatever the query string of the page is.
C2_LoadWithoutGatekeeper ==
    \A i \in DOMAIN calls :
        (calls[i].kind = "load" /\ Truthy(calls[i].config.appId)
            /\ ~Truthy(calls[i].config.gatekeeper))
        => /\ calls[i].status = "resolved"
           /\ calls[i].value = JSUndefined
           /\ RequestsOf(i) = {}

\* C2 happens on a page whose query string is the callback of this provider.
C2_Witness ==
    \E i \in DOMAIN calls :
        /\ calls[i].kind = "load" /\ Truthy(calls[i].config.appId)
        /\ ~Truthy(calls[i].config.gatekeeper)
        /\ calls[i].status = "resolved"
        /\ IsCallback /\ Truthy(getQueryStringValue("code"))

\* C3: a load() with an appId, a gatekeeper and a redirect URI makes exactly
\* one request, a GET of {gatekeeper}/authenticate/{code}, when the query
\* string has rslCallback=github and a code; when rslCallback is absent or
\* names another provider it makes no request and resolves with no value.
C3_OneRelayRequest ==
    \A i \in DOMAIN calls :
        (calls[i].kind = "load" /\ HasRedirect(calls[i].config))
        => /\ (IsCallback /\ Truthy(getQueryStringValue("code")))
                => /\ Cardinality(RequestsOf(i)) = 1
                   /\ \A r \in RequestsOf(i) :
                        /\ requests[r].method = "GET"
                        /\ requests[r].url =
                               JSString(ToStr(calls[i].config.gatekeeper)
                                        \o <<"/authenticate/">>
                                        \o ToStr(getQueryStringValue("code")))
           /\ ~IsCallback
                => /\ RequestsOf(i) = {}
                   /\ calls[i].status = "resolved"
                   /\ calls[i].value = JSUndefined

\* C3 happens: the relay request of a load() on the callback page is out, and
\* its response has come.
C3_Witness ==
    \E i \in DOMAIN calls : \E r \in RequestsOf(i) :
        /\ calls[i].kind = "load" /\ HasRedirect(calls[i].config)
        /\ IsCallback /\ getQueryStringValue("code") = Lit("ABC123")
        /\ requests[r].state = "done"

\* The fetch r has completed.
Done(r) == requests[r].state = "done"
\* The parsed body of the completed fetch r, when there is one.
HasBody(r) == Done(r) /\ requests[r].response.transport = "ok"
                      /\ requests[r].response.json.t = "object"
Json(r) == requests[r].response.json

\* Call i is a load whose reaction to getAccessToken() is still to run.
ReactionQueued(i) == \E k \in DOMAIN microtasks : microtasks[k] = i

\* The step settles the pending promise of call i.
Resolves(i) == calls[i].status = "pending" /\ calls'[i].status = "resolved"
Rejects(i) == calls[i].status = "pending" /\ calls'[i].status = "rejected"

BearerOf(credential) == JSString(<<"Bearer ">> \o ToStr(credential))

\* The relay answered the fetch r with {token: t} and no error field.
TokenAnswer(r) == HasBody(r) /\ Json(r).error = JSUndefined /\ Json(r).token # JSUndefined

\* C4, the exchange: after the relay answered {token: t}, load() is resolved
\* with t as soon as its reaction has run, and is never rejected.
C4_LoadResolvesWithToken ==
    \A i \in DOMAIN calls : \A r \in RequestsOf(i) :
        (calls[i].kind = "load" /\ TokenAnswer(r))
        => \/ calls[i].status = "resolved" /\ calls[i].value = Json(r).token
           \/ calls[i].status = "pending" /\ ReactionQueued(i)

\* C4, the steps: the step that resolves a load() with a token t has recorded
\* t as the access token; the access token changes in no other step; a
\* checkLogin(false) called while t is the access token is not rejected with
\* 'No access token available' but makes the GraphQL request with the
\* credential t, not the appId.
C4_TokenRecordedAndUsed ==
    /\ \A i \in DOMAIN calls :
         (calls[i].kind = "load" /\ Resolves(i) /\ calls'[i].value # JSUndefined)
         => githubAccessToken' = calls'[i].value
    /\ githubAccessToken' # githubAccessToken
         => \E i \in DOMAIN calls :
              calls[i].kind = "load" /\ Resolves(i) /\ calls'[i].value = githubAccessToken'
    /\ (IsCallStep /\ NewCall.kind = "checkLogin" /\ ~NewCall.autoLogin
          /\ githubAccessToken # JSUndefined)
         => /\ NewCall.status = "pending"
            /\ Len(requests') = Len(requests) + 1
            /\ requests'[Len(requests')].call = Len(calls')
            /\ requests'[Len(requests')].url = GITHUB_API
            /\ requests'[Len(requests')].authorization = BearerOf(githubAccessToken)

\* C4: if the relay answers the exchange with {token: t}, load() resolves
\* with t, t is the recorded access token when load() resolves, and a later
\* checkLogin() makes the GraphQL request with t as the bearer credential and
\* resolves when the provider returns a viewer body.
C4_TokenExchange ==
    /\ []C4_LoadResolvesWithToken
    /\ [][C4_TokenRecordedAndUsed]_vars
    /\ [](\A j \in DOMAIN calls : \A r \in RequestsOf(j) :
            (calls[j].kind = "checkLogin" /\ ~calls[j].autoLogin
                /\ Done(r) /\ requests[r].response = Body(ViewerBody))
            => calls[j].status = "resolved" /\ calls[j].value = ViewerBody)

\* C4 happens: load() resolved with the token t1 of the relay, and the
\* checkLogin() called after it sent t1 and resolved with the viewer body.
C4_Witness ==
    \E i, j \in DOMAIN calls : \E r \in RequestsOf(i) : \E q \in RequestsOf(j) :
        /\ i < j
        /\ calls[i].kind = "load" /\ TokenAnswer(r) /\ Json(r).token = Lit("t1")
        /\ calls[i].status = "resolved" /\ calls[i].value = Lit("t1")
        /\ calls[j].kind = "checkLogin" /\ ~calls[j].autoLogin
        /\ requests[q].authorization = BearerOf(Lit("t1"))
        /\ githubAppId # Lit("t1")
        /\ calls[j].status = "resolved" /\ calls[j].value = ViewerBody

\* The exchange of the fetch r failed: transport failure, a body with an
\* error field, or a body without a token field.
ExchangeFailed(r) ==
    /\ Done(r)
    /\ \/ requests[r].response.transport = "failed"
       \/ HasBody(r) /\ Json(r).error # JSUndefined
       \/ HasBody(r) /\ Json(r).token = JSUndefined

\* C5, the state: after a failed exchange load() is rejected with an error of
\* type 'access_token' as soon as its reaction has run, and is never resolved.
C5_LoadRejected ==
    \A i \in DOMAIN calls : \A r \in RequestsOf(i) :
        (calls[i].kind = "load" /\ ExchangeFailed(r))
        => \/ calls[i].status = "rejected" /\ IsRslError(calls[i].value, "access_token")
           \/ calls[i].status = "pending" /\ ReactionQueued(i)

\* C5: if the exchange fails (error field, no token field, or transport
\* failure), load() rejects with an error of type 'access_token', and neither
\* the arrival of the failure nor the rejection changes the access token: an
\* unset token remains unset.
C5_ExchangeFailure ==
    /\ []C5_LoadRejected
    /\ [][\A i \in DOMAIN calls :
            (calls[i].kind = "load"
               /\ \/ Rejects(i)
                  \/ \E r \in RequestsOf(i) : ~Done(r) /\ ExchangeFailed(r)')
            => githubAccessToken' = githubAccessToken]_vars

\* C5 happens: the relay answered {error: 'denied'}, load() is rejected and
\* no access token is recorded.
C5_Witness ==
    \E i \in DOMAIN calls : \E r \in RequestsOf(i) :
        /\ calls[i].kind = "load" /\ HasBody(r) /\ Json(r).error = Lit("denied")
        /\ calls[i].status = "rejected"
        /\ githubAccessToken = JSUndefined

\* C6: with a gatekeeper configured and no access token recorded,
\* checkLogin(false) rejects with the error of type 'access_token' and
\* description 'No access token available', and makes no network request.
C6_NoTokenNoProbe ==
    [][(IsCallStep /\ NewCall.kind = "checkLogin" /\ ~NewCall.autoLogin
          /\ oauth /\ githubAccessToken = JSUndefined)
         => /\ NewCall.status = "rejected"
            /\ IsRslError(NewCall.value, "access_token")
            /\ NewCall.value.description = "No access token available"
            /\ requests' = requests]_vars

\* C6 happens: such a checkLogin(false) was called and made no request.
C6_Witness ==
    \E i \in DOMAIN calls :
        /\ calls[i].kind = "checkLogin" /\ ~calls[i].autoLogin
        /\ oauth /\ githubAccessToken = JSUndefined
        /\ calls[i].status = "rejected"
        /\ RequestsOf(i) = {}

\* The promise of the checkLogin(false) that call i is, or that call i made.
Probe(i) == IF calls[i].inner.status = "none"
            THEN [status |-> calls[i].status, value |-> calls[i].value]
            ELSE calls[i].inner

\* C7: when the GraphQL request of checkLogin() completes with a parsed body
\* that has a 'message' or an 'errors' field, checkLogin() rejects with the
\* error of type 'check_login' whose cause is that body; it resolves, with
\* the raw body, only when the body has neither field.
C7_ErrorPayload ==
    \A i \in DOMAIN calls : \A r \in RequestsOf(i) :
        (calls[i].kind # "load" /\ HasBody(r))
        => /\ (Json(r).message # JSUndefined \/ Json(r).errors # JSUndefined)
                => /\ Probe(i).status = "rejected"
                   /\ IsRslError(Probe(i).value, "check_login")
                   /\ Probe(i).value.error = Json(r)
           /\ Probe(i).status = "resolved"
                => /\ Probe(i).value = Json(r)
                   /\ Json(r).message = JSUndefined /\ Json(r).errors = JSUndefined

\* C7 happens: a checkLogin(false) got {message: ...} over a working
\* transport and is rejected.
C7_Witness ==
    \E i \in DOMAIN calls : \E r \in RequestsOf(i) :
        /\ calls[i].kind = "checkLogin" /\ ~calls[i].autoLogin
        /\ HasBody(r) /\ Json(r).message # JSUndefined
        /\ calls[i].status = "rejected"

\* The step runs login's reaction to the promise of the checkLogin() of call i.
LoginReacts(i) ==
    /\ microtasks # << >> /\ Head(microtasks) = i /\ microtasks' = Tail(microtasks)
    /\ calls[i].kind # "load"

\* Call i is a login(), or a checkLogin(true).
IsLogin(i) == calls[i].kind = "login" \/ (calls[i].kind = "checkLogin" /\ calls[i].autoLogin)

\* C8: without a gatekeeper configured (oauth false), when the checkLogin()
\* made by login() rejects, login() rejects with the very error of that
\* rejection and opens no page.
C8_DirectTokenRethrows ==
    /\ [][\A i \in DOMAIN calls :
            (LoginReacts(i) /\ calls[i].inner.status = "rejected" /\ ~oauth)
            => /\ calls'[i].status = "rejected"
               /\ calls'[i].value = calls[i].inner.value
               /\ opened' = opened]_vars
    /\ [](\A i \in DOMAIN calls :
            (IsLogin(i) /\ calls[i].status = "rejected")
            => /\ calls[i].inner.status = "rejected"
               /\ calls[i].value = calls[i].inner.value
               /\ OpenedBy(i) = {})

\* C8 happens: a login() without gatekeeper whose GraphQL request failed is
\* rejected with the 'check_login' error of its checkLogin().
C8_Witness ==
    \E i \in DOMAIN calls : \E r \in RequestsOf(i) :
        /\ calls[i].kind = "login" /\ ~oauth
        /\ Done(r)
        /\ calls[i].inner.status = "rejected"
        /\ IsRslError(calls[i].inner.value, "check_login")
        /\ calls[i].status = "rejected"
        /\ opened = << >>

\* What the right side of line 41 evaluates to in load(config): the
\* authorization URL, or the throw of uuid.
AuthorizationUrl(config) ==
    LET state == uuid(config.redirect, "URL") IN
    IF state.completion = "throw"
    THEN state
    ELSE Return(JSString(<<"http://github.com/login/oauth/authorize?client_id=">>
                         \o ToStr(config.appId) \o <<"&redirect_uri=">>
                         \o ToStr(config.redirect)
                         \o <<"%3FrslCallback%3Dgithub", "&scope=user&state=">>
                         \o ToStr(state.value)))

\* Call k is a load() that computed an authorization URL.
ComputedUrl(k) ==
    /\ calls[k].kind = "load"
    /\ Truthy(calls[k].config.appId) /\ Truthy(calls[k].config.gatekeeper)
    /\ AuthorizationUrl(calls[k].config).completion = "normal"

\* C9: with a gatekeeper configured (oauth true), when the checkLogin() made
\* by login() rejects, login() opens githubAuth in the same window and its
\* promise stays pending from then on; once a load() with appId and
\* gatekeeper computed an authorization URL, oauth is true and githubAuth is
\* the authorization URL that such a load() computed.
C9_RedirectNeverSettles ==
    /\ [][\A i \in DOMAIN calls :
            (LoginReacts(i) /\ calls[i].inner.status = "rejected" /\ oauth)
            => /\ opened' = Append(opened, [call |-> i, url |-> githubAuth, target |-> "_self"])
               /\ calls'[i].status = "pending"]_vars
    /\ []((\E k \in DOMAIN calls : ComputedUrl(k))
            => \E k \in DOMAIN calls :
                  /\ ComputedUrl(k)
                  /\ oauth
                  /\ AuthorizationUrl(calls[k].config) = Return(githubAuth))
    /\ [](\A i \in DOMAIN calls :
            OpenedBy(i) # {} => /\ calls[i].status = "pending"
                                /\ Cardinality(OpenedBy(i)) = 1
                                /\ IsLogin(i) /\ calls[i].inner.status = "rejected")

\* C9 happens: with a token recorded, the GraphQL request of login() got an
\* error payload, login() opened the authorization URL, and later steps left
\* it pending.
C9_Witness ==
    \E i \in DOMAIN calls : \E r \in RequestsOf(i) :
        /\ calls[i].kind = "login" /\ oauth
        /\ HasBody(r) /\ Json(r).errors # JSUndefined
        /\ OpenedBy(i) # {}
        /\ calls[i].status = "pending"

\* C10: in either mode, when the checkLogin() made by login() resolves with a
\* value, login() resolves with that value and opens no page.
C10_LoginResolvesWithProbe ==
    /\ [][\A i \in DOMAIN calls :
            (LoginReacts(i) /\ calls[i].inner.status = "resolved")
            => /\ calls'[i].status = "resolved"
               /\ calls'[i].value = calls[i].inner.value
               /\ opened' = opened]_vars
    /\ [](\A i \in DOMAIN calls :
            (IsLogin(i) /\ calls[i].status = "resolved")
            => /\ calls[i].inner.status = "resolved"
               /\ calls[i].value = calls[i].inner.value
               /\ OpenedBy(i) = {})

\* C10 happens: with a gatekeeper and a token, login() resolved with the
\* viewer body its checkLogin() resolved with.
C10_Witness ==
    \E i \in DOMAIN calls :
        /\ calls[i].kind = "login" /\ oauth
        /\ calls[i].inner = Resolved(ViewerBody)
        /\ calls[i].status = "resolved" /\ calls[i].value = ViewerBody
        /\ opened = << >>

\* Call i is a load() with appId and gatekeeper.
IsGatekeeperLoad(i) ==
    /\ calls[i].kind = "load" /\ Truthy(calls[i].config.appId)
    /\ Truthy(calls[i].config.gatekeeper)

\* C11: a load() with gatekeeper on a page with rslCallback=github and no
\* code makes no relay request and rejects with the structured error
\* {provider: 'github', type: 'access_token', description: 'Authorization
\* code not found'}; every rejection of load(), checkLogin() and login() is a
\* structured error.
C11_StructuredRejections ==
    /\ \A i \in DOMAIN calls :
         (IsGatekeeperLoad(i) /\ IsCallback /\ ~Truthy(getQueryStringValue("code")))
         => /\ RequestsOf(i) = {}
            /\ \/ calls[i].status = "pending" /\ ReactionQueued(i)
               \/ /\ calls[i].status = "rejected"
                  /\ IsRslError(calls[i].value, "access_token")
                  /\ calls[i].value.description = "Authorization code not found"
    /\ \A i \in DOMAIN calls :
         calls[i].status = "rejected" => calls[i].value.t = "rslError"

\* What login() does in the step that calls it, as a function of the state
\* it is called in: the promise is pending; with a gatekeeper and no token
\* there is no fetch and the reaction to the rejected checkLogin() is queued,
\* otherwise there is one POST to the GraphQL endpoint.
LoginCallLaw ==
    LET id == Len(calls') IN
    /\ NewCall.status = "pending"
    /\ IF oauth /\ ~Truthy(githubAccessToken)
       THEN /\ requests' = requests
            /\ NewCall.inner.status = "rejected"
            /\ IsRslError(NewCall.inner.value, "access_token")
            /\ microtasks' = Append(microtasks, id)
       ELSE /\ requests' = Append(requests,
                   Fetch(id, GITHUB_API, "POST", BearerOf(Or(githubAccessToken, githubAppId))))
            /\ NewCall.inner = Pending
            /\ microtasks' = microtasks
    /\ opened' = opened
    /\ session' = session

\* What login() does when its checkLogin() has settled, as a function of the
\* state its reaction runs in.
LoginReactionLaw(i) ==
    IF calls[i].inner.status = "resolved"
    THEN /\ calls'[i].status = "resolved" /\ calls'[i].value = calls[i].inner.value
         /\ opened' = opened
    ELSE IF ~oauth
    THEN /\ calls'[i].status = "rejected" /\ calls'[i].value = calls[i].inner.value
         /\ opened' = opened
    ELSE /\ calls'[i].status = "pending"
         /\ opened' = Append(opened, [call |-> i, url |-> githubAuth, target |-> "_self"])

\* The step completes the fetch r.
Completes(r) == ~Done(r) /\ requests'[r].state = "done"

\* C12: checkLogin(true) behaves exactly like login(): a call of either
\* makes the same request (or none), the response of the provider settles
\* the same inner checkLogin() and queues the same reaction, and the reaction
\* settles the promise the same way or opens the same page.
C12_AutoLoginIsLogin ==
    [][/\ (IsCallStep /\ (NewCall.kind = "login"
                            \/ (NewCall.kind = "checkLogin" /\ NewCall.autoLogin)))
          => LoginCallLaw
       /\ \A i \in DOMAIN calls :
            IsLogin(i)
            => /\ \A r \in RequestsOf(i) :
                    Completes(r)
                    => /\ calls'[i].inner = checkLoginSettle(requests'[r].response)
                       /\ calls'[i].status = "pending"
                       /\ microtasks' = Append(microtasks, i)
               /\ LoginReacts(i) => LoginReactionLaw(i)
               /\ (~LoginReacts(i) /\ \A r \in RequestsOf(i) : ~Completes(r))
                    => calls'[i] = calls[i]]_vars

\* C12 happens: a login() and a checkLogin(true) of the same run sent the
\* same request and were rejected with equal errors.
C12_Witness ==
    \E i, j \in DOMAIN calls : \E r \in RequestsOf(i) : \E q \in RequestsOf(j) :
        /\ calls[i].kind = "login"
        /\ calls[j].kind = "checkLogin" /\ calls[j].autoLogin
        /\ requests[r].authorization = requests[q].authorization
        /\ requests[r].response = requests[q].response
        /\ calls[i].status = "rejected" /\ calls[j].status = "rejected"
        /\ calls[i].value = calls[j].value

\* The step makes the fetch r.
Issues(r) == r \in DOMAIN requests' /\ r \notin DOMAIN requests

\* C13: every GraphQL request of checkLogin() carries 'Bearer ' followed by
\* the recorded access token when there is one, by the appId otherwise; once
\* a load() has resolved, the credential is never absent.
C13_CredentialPrecedence ==
    [][\A r \in DOMAIN requests' :
         (Issues(r) /\ requests'[r].method = "POST")
         => /\ requests'[r].url = GITHUB_API
            /\ requests'[r].authorization =
                   BearerOf(IF githubAccessToken # JSUndefined
                            THEN githubAccessToken
                            ELSE githubAppId)
            /\ (\E k \in DOMAIN calls : calls[k].kind = "load" /\ calls[k].status = "resolved")
                 => /\ requests'[r].authorization # BearerOf(JSUndefined)
                    /\ requests'[r].authorization # BearerOf(EmptyString)]_vars

\* C13 happens: no token is recorded, and the request made after a load()
\* that resolved carries the appId.
C13_Witness ==
    \E k \in DOMAIN calls : \E r \in DOMAIN requests :
        /\ calls[k].kind = "load" /\ calls[k].status = "resolved"
        /\ requests[r].method = "POST" /\ requests[r].call > k
        /\ githubAccessToken = JSUndefined
        /\ requests[r].authorization = BearerOf(Lit("app1"))

\* The step is a call of generateUser.
IsGenerateStep == generated' # generated

\* C14: generateUser(response) gives profile.id = id, profile.name =
\* firstName = lastName = name, profile.email = email, profile.profilePicURL
\* = avatarUrl of data.viewer, token.expiresAt = Infinity and
\* token.accessToken = the credential checkLogin() would send in that state
\* (the recorded access token, else the appId); it makes no network request
\* and leaves the session state as it was.
C14_GenerateUser ==
    [][IsGenerateStep
         => LET viewer == generated'.argument.data.viewer
                user == generated'.result IN
            /\ user.profile.id = viewer.id
            /\ user.profile.name = viewer.name
            /\ user.profile.firstName = viewer.name
            /\ user.profile.lastName = viewer.name
            /\ user.profile.email = viewer.email
            /\ user.profile.profilePicURL = viewer.avatarUrl
            /\ user.token.expiresAt = Infinity
            /\ user.token.accessToken = IF githubAccessToken # JSUndefined
                                        THEN githubAccessToken
                                        ELSE githubAppId
            /\ requests' = requests
            /\ session' = session
            /\ calls' = calls /\ opened' = opened /\ microtasks' = microtasks]_vars

\* C14 happens: generateUser ran on the viewer Ada with the appId as the only
\* credential.
C14_Witness ==
    /\ generated.argument = ViewerBody
    /\ generated.result.profile.lastName = Lit("Ada")
    /\ githubAccessToken = JSUndefined
    /\ generated.result.token.accessToken = Lit("app1")

\* The state parameter of an authorization URL: what follows '&scope=user&state='.
StateOf(url) ==
    LET k == CHOOSE k \in DOMAIN url.s : url.s[k] = "&scope=user&state=" IN
    SubSeq(url.s, k + 1, Len(url.s))

\* The step is a load() with appId, gatekeeper and redirect URI.
IsGatekeeperLoadStep ==
    /\ IsCallStep /\ NewCall.kind = "load" /\ HasRedirect(NewCall.config)

\* The last load() made so far that computed an authorization URL: the
\* current one.
LastGatekeeperLoad ==
    CHOOSE k \in DOMAIN calls :
        ComputedUrl(k) /\ \A j \in DOMAIN calls : ComputedUrl(j) => j <= k

\* C15: the state token that a load() with appId, gatekeeper and redirect
\* URI puts in the authorization URL is a function of the redirect URI
\* alone: it is the name-based identifier of the redirect, and when the
\* current authorization URL comes from such a load() too, the load()
\* embeds the same token as that one, whatever their appIds and gatekeepers
\* and the state in between, exactly when their redirect URIs are equal.
C15_StateTokenOfRedirect ==
    [][IsGatekeeperLoadStep
         => /\ StateOf(githubAuth') = ToStr(uuid(NewCall.config.redirect, "URL").value)
            /\ ((\E k \in DOMAIN calls : ComputedUrl(k))
                   /\ HasRedirect(calls[LastGatekeeperLoad].config))
                 => ((StateOf(githubAuth') = StateOf(githubAuth))
                           <=> (NewCall.config.redirect
                                  = calls[LastGatekeeperLoad].config.redirect))]_vars

\* C15 happens: two load() calls with the same redirect, different appIds and
\* different gatekeepers.
C15_Witness ==
    \E i, j \in DOMAIN calls :
        /\ i < j /\ ComputedUrl(i) /\ ComputedUrl(j)
        /\ HasRedirect(calls[i].config)
        /\ calls[i].config.redirect = calls[j].config.redirect
        /\ calls[i].config.appId # calls[j].config.appId
        /\ calls[i].config.gatekeeper # calls[j].config.gatekeeper
        /\ StateOf(githubAuth) = ToStr(uuid(calls[i].config.redirect, "URL").value)
        /\ StateOf(githubAuth) # ToStr(uuid(Lit("https://host/b"), "URL").value)

\* Call k is a load() that passed the appId check.
IsAcceptedLoad(k) == calls[k].kind = "load" /\ Truthy(calls[k].config.appId)

\* C16: after any sequence of load() calls the adapter is in RedirectOAuth
\* mode (oauth true) exactly when the configuration of the most recent load()
\* that passed the appId check has a gatekeeper; a load() without gatekeeper
\* leaves it in DirectToken mode (oauth false).
C16_ModeOfLastLoad ==
    IF \E k \in DOMAIN calls : IsAcceptedLoad(k)
    THEN LET last == CHOOSE k \in DOMAIN calls :
                        IsAcceptedLoad(k)
                        /\ \A j \in DOMAIN calls : IsAcceptedLoad(j) => j <= k
         IN oauth <=> Truthy(calls[last].config.gatekeeper)
    ELSE ~oauth

\* The configuration part of the session state: all but the access token.
configured == <<oauth, gatekeeperURL, githubAppId, githubAuth, githubRedirect>>

\* C17: the session state is changed only by load() (appId, mode, relay URL,
\* authorization URL) and by the successful end of the callback exchange
\* (access token).  A call of checkLogin() or login(), a call of
\* generateUser(), a response of the provider, a failed response of the relay
\* and the opening of the authorization page leave all of it unchanged.
C17_SessionFrame ==
    [][/\ configured' # configured
            => IsCallStep /\ NewCall.kind = "load" /\ Truthy(NewCall.config.appId)
       /\ githubAccessToken' # githubAccessToken
            => \E i \in DOMAIN calls : \E r \in RequestsOf(i) :
                  /\ calls[i].kind = "load" /\ Resolves(i)
                  /\ TokenAnswer(r)
                  /\ githubAccessToken' = Json(r).token
       /\ (IsCallStep /\ NewCall.kind # "load") => session' = session
       /\ IsGenerateStep => session' = session
       /\ opened' # opened => session' = session
       /\ \A r \in DOMAIN requests :
            (Completes(r) /\ (requests[r].method = "POST" \/ ExchangeFailed(r)'))
            => session' = session
       /\ \A i \in DOMAIN calls : Rejects(i) => session' = session]_vars

\* C17 happens: a load() set the configuration, its exchange recorded the
\* token t1, and after that a login() got an error payload and opened the
\* authorization page, and generateUser was called.
C17_Witness ==
    \E i \in DOMAIN calls : \E r \in RequestsOf(i) :
        /\ oauth /\ githubAccessToken = Lit("t1")
        /\ calls[i].kind = "login" /\ HasBody(r) /\ Json(r).message # JSUndefined
        /\ OpenedBy(i) # {}
        /\ generated # NotGenerated

\* The fetch r failed before a body was parsed: transport failure, or a body
\* that is not JSON.
NoBody(r) == Done(r) /\ requests[r].response.transport \in {"failed", "unparsable"}

\* C18: when the GraphQL request of checkLogin() fails at transport level, or
\* its body cannot be parsed, checkLogin() rejects with the error of type
\* 'check_login' whose cause is null, and the request is not made again: a
\* call of checkLogin() or login() makes at most one request.
C18_TransportFailure ==
    /\ \A i \in DOMAIN calls : \A r \in RequestsOf(i) :
         (calls[i].kind # "load" /\ NoBody(r))
         => /\ Probe(i).status = "rejected"
            /\ IsRslError(Probe(i).value, "check_login")
            /\ Probe(i).value.error = JSNull
    /\ \A i \in DOMAIN calls :
         calls[i].kind # "load" => Cardinality(RequestsOf(i)) <= 1

\* C18 happens: the request of a checkLogin(false) failed at transport level
\* and the call is rejected.
C18_Witness ==
    \E i \in DOMAIN calls : \E r \in RequestsOf(i) :
        /\ calls[i].kind = "checkLogin" /\ ~calls[i].autoLogin
        /\ Done(r) /\ requests[r].response = Failed
        /\ calls[i].status = "rejected"

\* The promise of call i is settled.
Settled(i) == calls[i].status \in {"resolved", "rejected"}

\* C19, the steps: a settled promise keeps its state and its value, so it is
\* settled once and never both resolved and rejected.
C19_SettledOnce ==
    \A i \in DOMAIN calls :
        Settled(i) => calls'[i].status = calls[i].status /\ calls'[i].value = calls[i].value

\* C19: when every fetch completes, every load() and every checkLogin(false)
\* is eventually settled, and settled once; every login() is eventually
\* settled, once, or opens the authorization page; no promise stays pending
\* for ever without a navigation.
C19_EventuallySettled ==
    /\ \A i \in 1..MaxCalls :
         [](i \in DOMAIN calls
              => <>(i \in DOMAIN calls
                      /\ (Settled(i) \/ (IsLogin(i) /\ OpenedBy(i) # {}))))
    /\ [][C19_SettledOnce]_vars

\* C19 happens: a load() was settled by the response of the relay and a
\* login() opened the authorization page.
C19_Witness ==
    \E i, j \in DOMAIN calls : \E r \in RequestsOf(i) :
        /\ calls[i].kind = "load" /\ Done(r) /\ Settled(i)
        /\ calls[j].kind = "login" /\ OpenedBy(j) # {}

\* Some load() has resolved with a token: its callback exchange is processed.
ExchangeProcessed ==
    \E k \in DOMAIN calls :
        calls[k].kind = "load" /\ calls[k].status = "resolved" /\ calls[k].value # JSUndefined

\* C20, the state: the access token is absent until a load() has resolved
\* with it; a recorded token is the value some load() resolved with.
C20_TokenAfterLoad ==
    githubAccessToken # JSUndefined
    => \E k \in DOMAIN calls :
          /\ calls[k].kind = "load" /\ calls[k].status = "resolved"
          /\ calls[k].value = githubAccessToken

\* C20, the steps: with a gatekeeper configured and no exchange processed
\* yet, a checkLogin(false) rejects with 'access_token' and makes no request,
\* a login() makes no request and its reaction opens the authorization URL;
\* a request that carries a token is made only after a load() resolved with
\* that token.
C20_CallsInTheWindow ==
    /\ (IsCallStep /\ NewCall.kind # "load" /\ oauth /\ ~ExchangeProcessed)
         => /\ requests' = requests
            /\ IF NewCall.kind = "checkLogin" /\ ~NewCall.autoLogin
               THEN NewCall.status = "rejected" /\ IsRslError(NewCall.value, "access_token")
               ELSE /\ NewCall.status = "pending"
                    /\ NewCall.inner.status = "rejected"
                    /\ IsRslError(NewCall.inner.value, "access_token")
    /\ \A i \in DOMAIN calls :
         (LoginReacts(i) /\ IsRslError(calls[i].inner.value, "access_token"))
         => /\ opened' = Append(opened, [call |-> i, url |-> githubAuth, target |-> "_self"])
            /\ calls'[i].status = "pending"
    /\ \A r \in DOMAIN requests' :
         (Issues(r) /\ requests'[r].method = "POST" /\ oauth)
         => /\ ExchangeProcessed
            /\ requests'[r].authorization = BearerOf(githubAccessToken)

\* C20: with a gatekeeper configured, the access token is absent until the
\* response of the relay to load()'s exchange has been processed; a
\* checkLogin(false) called before that rejects with 'access_token' without
\* a request and a login() called before that opens the authorization URL,
\* even when the exchange succeeds later; only calls made after load() has
\* resolved see the token.
C20_AwaitLoad ==
    /\ []C20_TokenAfterLoad
    /\ [][C20_CallsInTheWindow]_vars

\* C20 happens: login() was called while the exchange of load() was in
\* flight and opened the authorization URL; the exchange then succeeded and
\* load() resolved with t1.
C20_Witness ==
    \E i, j \in DOMAIN calls : \E r \in RequestsOf(i) :
        /\ i < j
        /\ calls[i].kind = "load" /\ TokenAnswer(r)
        /\ calls[i].status = "resolved" /\ calls[i].value = Lit("t1")
        /\ githubAccessToken = Lit("t1")
        /\ calls[j].kind = "login" /\ RequestsOf(j) = {}
        /\ IsRslError(calls[j].inner.value, "access_token")
        /\ OpenedBy(j) # {}

====
